---- MODULE Spec2Model ----
(***************************************************************************)
(* URL shortener: the URL/Click store (app/models.py), the service          *)
(* operations of URLService (app/services/url_service.py), the code         *)
(* generator (app/utils/short_code.py) and the request handlers that call   *)
(* them (app/routes).  Every request handler runs in its own thread with    *)
(* its own database session; each SQL statement / commit is one atomic      *)
(* step, so handlers interleave between their database calls.               *)
(***************************************************************************)
EXTENDS Integers, Sequences, FiniteSets, TLC

(* ------------------------------ bounds --------------------------------- *)
\* Request-handling threads.
Procs == {"t1", "t2"}
\* Total number of requests the threads may begin.
MaxOps == 4
\* The clock runs over 0..MaxTime.
MaxTime == 2
\* The expires_at that requests carry (before, at and after it the clock stands).
ExpiryTime == 1
\* Attempts per length in generate_random (max_attempts, 10 in the code).
MaxAttempts == 2
\* encode_base62 and decode_base62 are applied to the numbers 0..MaxNum.
MaxNum == 4000
\* generate_from_id is applied with min_length in 1..MaxMinLength (default 6).
MaxMinLength == 2
\* The symbols of CHARSET that random draws use (62 in the code).
Alphabet == {"a"}

(* ------------------------- program constants --------------------------- *)
MAX_URL_LENGTH == 2048
CUSTOM_ALIAS_MIN_LENGTH == 3
CUSTOM_ALIAS_MAX_LENGTH == 20
\* int(os.getenv('SHORT_CODE_LENGTH', 6)): the deployment's setting.
SHORT_CODE_LENGTH == 1
\* short_code = db.Column(db.String(20), ...): the width of the column.
SHORT_CODE_COLUMN_LENGTH == 20

\* None for an optional datetime (expires_at) and for an absent id.
None == -1
\* None / "" for an optional code: `if not custom_code` treats both alike.
NoCode == << >>

\* Characters is_valid_custom_code accepts: letters, digits, '-' and '_'.
allowed_chars == Alphabet \cup {"b", "c", "-", "_"}

(* ------------------------------ inputs --------------------------------- *)
\* A URL string, by the properties validate_url looks at.
UrlA     == [name |-> "A", len |-> 21, wellformed |-> TRUE]
UrlB     == [name |-> "B", len |-> 21, wellformed |-> TRUE]
UrlLong  == [name |-> "L", len |-> 2049, wellformed |-> TRUE]
UrlEmpty == [name |-> "", len |-> 0, wellformed |-> FALSE]
UrlBad   == [name |-> "X", len |-> 9, wellformed |-> FALSE]

CustomOK       == <<"a", "-", "c">>
CustomShort    == <<"a", "b">>
CustomBadChar  == <<"a", "!", "c">>

ExpiresInputs == {None, ExpiryTime}

\* The (original_url, custom_code, expires_at) payloads of POST /api/shorten.
CreateInputs ==
  ({UrlA} \X {NoCode, CustomOK} \X ExpiresInputs)
    \cup ({UrlB} \X {NoCode} \X {None})
    \cup ({UrlLong, UrlBad} \X {CustomOK} \X {None})
    \cup ({UrlA} \X {CustomShort, CustomBadChar} \X {None})

\* The short codes that GET /<short_code>, GET and DELETE /api/urls/<short_code> carry.
LookupCodes == {<<"a">>, CustomOK}

\* get_url_stats: .limit(10)
RECENT_LIMIT == 10

\* list_urls: request.args.get('per_page', 50, type=int), page 1.
PER_PAGE == 50

\* A URL row is [id, original_url, short_code, custom, created_at, expires_at,
\* click_count] and a Click row is [id, url_id]; clicked_at, ip_address,
\* user_agent and referer are written once and read by no decision.
VARIABLES
  urls,        \* table urls: set of URL rows
  clicks,      \* table clicks: set of Click rows
  nextUrlId,   \* urls.id sequence
  nextClickId, \* clicks.id sequence
  now,         \* datetime.utcnow()
  ops,         \* requests begun so far
  pc,          \* per thread: position in its handler
  req,         \* per thread: the request's arguments
  loaded,      \* per thread: the URL object held in the session
  gen,         \* per thread: generate_random's length / attempt / code
  result,      \* per thread: what the handler returned
  codec        \* the base62 conversions: number, code and number read back

vars == <<urls, clicks, nextUrlId, nextClickId, now, ops, pc, req, loaded, gen, result, codec>>

(* ------------------------------ helpers -------------------------------- *)
NoReq == [op |-> "none", original_url |-> UrlEmpty, custom_code |-> NoCode,
          expires_at |-> None, short_code |-> NoCode]
NoLoaded == [id |-> None, click_count |-> 0, original_url |-> UrlEmpty, children |-> {}]
NoGen == [length |-> 0, attempt |-> 0, short_code |-> NoCode]
NoResult == [kind |-> "none", short_code |-> NoCode, already_exists |-> FALSE,
             original_url |-> UrlEmpty, total_clicks |-> 0, recent_clicks |-> {},
             total |-> 0, urls |-> {}]
NoCodec == [step |-> "idle", num |-> 0, min_length |-> 0, code |-> NoCode, decoded |-> None]

Res(kind) == [NoResult EXCEPT !.kind = kind]

\* URL.query.filter_by(short_code=code): the rows with that code.
ByCode(code) == {u \in urls : u.short_code = code}

\* URL.query.filter_by(original_url=url): the rows with that original_url.
ByOriginal(url) == {u \in urls : u.original_url = url}

\* Row of table urls with primary key id.
ById(id) == {u \in urls : u.id = id}

\* url.clicks: the Click rows of a URL.
ClicksOf(id) == {c \in clicks : c.url_id = id}

\* All sequences of the given length over Alphabet: random.choices(CHARSET, k).
RECURSIVE Draws(_)
Draws(k) == IF k = 0 THEN {<< >>}
            ELSE {Append(s, ch) : s \in Draws(k - 1), ch \in Alphabet}

\* validate_url: is_valid of the (is_valid, message) pair.
validate_url(url) ==
  IF url.len = 0 \/ url.len > MAX_URL_LENGTH THEN FALSE
  ELSE IF ~url.wellformed THEN FALSE
  ELSE TRUE

\* ShortCodeGenerator.is_valid_custom_code
is_valid_custom_code(code) ==
  IF code = NoCode THEN FALSE
  ELSE IF ~(\A i \in 1..Len(code) : code[i] \in allowed_chars) THEN FALSE
  ELSE IF ~(CUSTOM_ALIAS_MIN_LENGTH <= Len(code) /\ Len(code) <= CUSTOM_ALIAS_MAX_LENGTH) THEN FALSE
  ELSE TRUE

\* create_short_url's reuse test: the existing row is not expired.
NotExpiredForReuse(u) == u.expires_at = None \/ u.expires_at > now

ExpiredForRedirect_inclusive(u) == u.expires_at # None /\ u.expires_at <= now

\* get_original_url's test: the row has expired.
ExpiredForRedirect(u) == u.expires_at # None /\ u.expires_at < now

DuplicateCode_unchecked(code) == FALSE

\* The unique index on urls.short_code rejects the insert of this code.
DuplicateCode(code) == ByCode(code) # {}

CustomCodeTaken_live(code) == \E u \in ByCode(code) : ~ExpiredForRedirect(u)

\* create_short_url's check of a custom code: URL.query.filter_by(short_code=custom_code).first()
CustomCodeTaken(code) == ByCode(code) # {}

Init ==
  /\ urls = {}
  /\ clicks = {}
  /\ nextUrlId = 1
  /\ nextClickId = 1
  /\ now = 0
  /\ ops = 0
  /\ pc = [p \in Procs |-> "idle"]
  /\ req = [p \in Procs |-> NoReq]
  /\ loaded = [p \in Procs |-> NoLoaded]
  /\ gen = [p \in Procs |-> NoGen]
  /\ result = [p \in Procs |-> NoResult]
  /\ codec = NoCodec

\* A handler returns: the thread's response is ready.
Return(p, r) ==
  /\ pc' = [pc EXCEPT ![p] = "done"]
  /\ result' = [result EXCEPT ![p] = r]

(* --------------------- POST /api/shorten : create ---------------------- *)
\* shorten_url calls create_short_url, which validates its arguments before
\* it touches the store: validate_url, then the branch on custom_code (the
\* format validation is local).
shorten_url(p) ==
  /\ pc[p] = "idle" /\ ops < MaxOps
  /\ ops' = ops + 1
  /\ \E in \in CreateInputs :
       LET url == in[1]  cc == in[2]  exp == in[3] IN
       /\ req' = [req EXCEPT ![p] = [NoReq EXCEPT !.op = "create", !.original_url = url,
                                                  !.custom_code = cc, !.expires_at = exp]]
       /\ IF ~validate_url(url)
            THEN Return(p, Res("InvalidUrl"))
          ELSE IF cc = NoCode
            THEN /\ pc' = [pc EXCEPT ![p] = "dedup"] /\ UNCHANGED result
          ELSE IF ~is_valid_custom_code(cc)
            THEN Return(p, Res("InvalidCustomCode"))
          ELSE /\ pc' = [pc EXCEPT ![p] = "check_custom"] /\ UNCHANGED result
  /\ UNCHANGED <<urls, clicks, nextUrlId, nextClickId, now, loaded, gen, codec>>

\* URL.query.filter_by(original_url=...).first(): some matching row (the
\* query has no ORDER BY), or none; reuse it when it is not expired.
create_short_url_dedup(p) ==
  /\ pc[p] = "dedup"
  /\ LET matches == ByOriginal(req[p].original_url) IN
     IF matches = {}
       THEN /\ pc' = [pc EXCEPT ![p] = "generate"]
            /\ gen' = [gen EXCEPT ![p] = [NoGen EXCEPT !.length = SHORT_CODE_LENGTH]]
            /\ UNCHANGED result
     ELSE \E existing_url \in matches :
            IF NotExpiredForReuse(existing_url)
              THEN /\ Return(p, [Res("Existing") EXCEPT !.short_code = existing_url.short_code,
                                                        !.already_exists = TRUE])
                   /\ UNCHANGED gen
            ELSE /\ pc' = [pc EXCEPT ![p] = "generate"]
                 /\ gen' = [gen EXCEPT ![p] = [NoGen EXCEPT !.length = SHORT_CODE_LENGTH]]
                 /\ UNCHANGED result
  /\ UNCHANGED <<urls, clicks, nextUrlId, nextClickId, now, ops, req, loaded, codec>>

\* The existence check of a custom code.
create_short_url_custom(p) ==
  /\ pc[p] = "check_custom"
  /\ IF CustomCodeTaken(req[p].custom_code)
       THEN /\ Return(p, Res("CodeInUse")) /\ UNCHANGED gen
     ELSE /\ pc' = [pc EXCEPT ![p] = "insert"]
          /\ gen' = [gen EXCEPT ![p] = [NoGen EXCEPT !.short_code = req[p].custom_code]]
          /\ UNCHANGED result
  /\ UNCHANGED <<urls, clicks, nextUrlId, nextClickId, now, ops, req, loaded, codec>>

generate_random_same_length(p) ==
  /\ pc[p] = "generate"
  /\ \E code \in Draws(gen[p].length) :
       IF ByCode(code) = {}
         THEN /\ gen' = [gen EXCEPT ![p].short_code = code]
              /\ pc' = [pc EXCEPT ![p] = "insert"]
       ELSE /\ gen' = [gen EXCEPT ![p].attempt = (@ + 1) % MaxAttempts]
            /\ UNCHANGED pc
  /\ UNCHANGED <<urls, clicks, nextUrlId, nextClickId, now, ops, req, loaded, result, codec>>

\* One attempt of generate_random: draw a code, check the store for it; after
\* max_attempts collisions recurse with length + 1.
generate_random(p) ==
  /\ pc[p] = "generate"
  /\ \E code \in Draws(gen[p].length) :
       IF ByCode(code) = {}
         THEN /\ gen' = [gen EXCEPT ![p].short_code = code]
              /\ pc' = [pc EXCEPT ![p] = "insert"]
       ELSE IF gen[p].attempt + 1 < MaxAttempts
         THEN /\ gen' = [gen EXCEPT ![p].attempt = @ + 1]
              /\ UNCHANGED pc
       ELSE /\ gen' = [gen EXCEPT ![p].attempt = 0, ![p].length = @ + 1]
            /\ UNCHANGED pc
  /\ UNCHANGED <<urls, clicks, nextUrlId, nextClickId, now, ops, req, loaded, result, codec>>

Rollback_keep(committed, pending) == pending

Rollback_merge(committed, pending) == committed \cup pending

\* db.session.rollback(): the table as it was committed, the pending change dropped.
Rollback(committed, pending) == committed

\* The value does not fit the column short_code: the INSERT is rejected.
TooLong(code) == Len(code) > SHORT_CODE_COLUMN_LENGTH

\* new_url = URL(original_url=..., short_code=..., custom=bool(custom_code),
\* expires_at=...); id, created_at and click_count get their column defaults.
NewUrl(p) == [id |-> nextUrlId,
              original_url |-> req[p].original_url,
              short_code |-> gen[p].short_code,
              custom |-> (req[p].custom_code # NoCode),
              created_at |-> now,
              expires_at |-> req[p].expires_at,
              click_count |-> 0]

\* db.session.add(new_url); db.session.commit(), and the except branch
\* (db.session.rollback(), "Database error: ...").
create_short_url_insert(p) ==
  /\ pc[p] = "insert"
  /\ LET short_code == gen[p].short_code IN
     \/ /\ ~DuplicateCode(short_code) /\ ~TooLong(short_code)
        /\ urls' = urls \cup {NewUrl(p)}
        /\ nextUrlId' = nextUrlId + 1
        /\ loaded' = [loaded EXCEPT ![p] = [NoLoaded EXCEPT !.id = nextUrlId]]
        /\ pc' = [pc EXCEPT ![p] = "created"]
        /\ UNCHANGED result
     \/ /\ DuplicateCode(short_code)
        /\ urls' = Rollback(urls, urls \cup {NewUrl(p)})
        /\ Return(p, Res("DatabaseError:IntegrityError"))
        /\ UNCHANGED <<nextUrlId, loaded>>
     \/ /\ TooLong(short_code)
        /\ urls' = Rollback(urls, urls \cup {NewUrl(p)})
        /\ Return(p, Res("DatabaseError:DataError"))
        /\ UNCHANGED <<nextUrlId, loaded>>
     \/ /\ urls' = Rollback(urls, urls \cup {NewUrl(p)})
        /\ Return(p, Res("DatabaseError:OperationalError"))
        /\ UNCHANGED <<nextUrlId, loaded>>
  /\ UNCHANGED <<clicks, nextClickId, now, ops, req, gen, codec>>

\* new_url.to_dict() in create_short_url's try block: the commit has expired
\* the object, so its attributes are loaded again by primary key; when the row
\* is gone the except branch returns "Database error".
to_dict(p) ==
  /\ pc[p] = "created"
  /\ IF ById(loaded[p].id) = {}
       THEN Return(p, Res("DatabaseError:ObjectDeletedError"))
     ELSE \E url \in ById(loaded[p].id) :
            Return(p, [Res("Created") EXCEPT !.short_code = url.short_code,
                                              !.original_url = url.original_url])
  /\ UNCHANGED <<urls, clicks, nextUrlId, nextClickId, now, ops, req, loaded, gen, codec>>

(* ----------------------- GET /<short_code> : redirect ------------------ *)
\* get_original_url, called by redirect_to_url; a failure is rendered as 404.
get_original_url(p) ==
  /\ pc[p] = "idle" /\ ops < MaxOps
  /\ ops' = ops + 1
  /\ \E short_code \in LookupCodes :
       /\ req' = [req EXCEPT ![p] = [NoReq EXCEPT !.op = "redirect", !.short_code = short_code]]
       /\ IF ByCode(short_code) = {}
            THEN /\ Return(p, Res("NotFound")) /\ UNCHANGED loaded
          ELSE \E url \in ByCode(short_code) :
                 IF ExpiredForRedirect(url)
                   THEN /\ Return(p, Res("Expired")) /\ UNCHANGED loaded
                 ELSE /\ loaded' = [loaded EXCEPT ![p] = [NoLoaded EXCEPT !.id = url.id,
                                        !.click_count = url.click_count,
                                        !.original_url = url.original_url]]
                      /\ pc' = [pc EXCEPT ![p] = "track"]
                      /\ UNCHANGED result
  /\ UNCHANGED <<urls, clicks, nextUrlId, nextClickId, now, gen, codec>>

IncrementedUrls_by_two(p) ==
  {IF u.id = loaded[p].id THEN [u EXCEPT !.click_count = loaded[p].click_count + 2] ELSE u
     : u \in urls}

IncrementedUrls_renewing(p) ==
  {IF u.id = loaded[p].id
     THEN [u EXCEPT !.click_count = loaded[p].click_count + 1, !.expires_at = None]
   ELSE u : u \in urls}

\* The UPDATE the flush emits for url.click_count += 1: the value read when
\* the object was loaded, plus one, written to the row with the object's id.
IncrementedUrls(p) ==
  {IF u.id = loaded[p].id THEN [u EXCEPT !.click_count = loaded[p].click_count + 1] ELSE u
     : u \in urls}

\* track_click: flush and commit of the counter UPDATE and the Click INSERT in
\* one transaction; any exception is caught, rolled back and printed.
track_click(p) ==
  /\ pc[p] = "track"
  /\ \/ /\ ById(loaded[p].id) # {}
        /\ urls' = IncrementedUrls(p)
        /\ clicks' = clicks \cup {[id |-> nextClickId, url_id |-> loaded[p].id]}
        /\ nextClickId' = nextClickId + 1
     \/ \* StaleDataError: the UPDATE matched no row
        /\ ById(loaded[p].id) = {}
        /\ urls' = Rollback(urls, IncrementedUrls(p))
        /\ UNCHANGED <<clicks, nextClickId>>
     \/ \* the commit fails in the database
        /\ urls' = Rollback(urls, IncrementedUrls(p))
        /\ UNCHANGED <<clicks, nextClickId>>
  /\ pc' = [pc EXCEPT ![p] = "respond"]
  /\ UNCHANGED <<nextUrlId, now, ops, req, loaded, gen, result, codec>>

\* redirect_to_url's last line: result.original_url is read after the commit or
\* rollback has expired the object, so it is loaded again by primary key.
redirect_to_url(p) ==
  /\ pc[p] = "respond"
  /\ IF ById(loaded[p].id) = {}
       THEN Return(p, Res("ObjectDeletedError"))
     ELSE \E url \in ById(loaded[p].id) :
            Return(p, [Res("Redirect") EXCEPT !.original_url = url.original_url])
  /\ UNCHANGED <<urls, clicks, nextUrlId, nextClickId, now, ops, req, loaded, gen, codec>>

(* ------------------- GET /api/urls/<short_code> : stats ---------------- *)
\* The ids of the (at most n) newest of a set of Click rows.
RECURSIVE Newest(_, _)
Newest(cs, n) ==
  IF n = 0 \/ cs = {} THEN {}
  ELSE LET c == CHOOSE x \in cs : \A y \in cs : y.id <= x.id
       IN {c.id} \cup Newest(cs \ {c}, n - 1)

\* get_url_stats: the lookup and the query of the newest Click rows, read in
\* one step (the handler writes nothing).
get_url_stats(p) ==
  /\ pc[p] = "idle" /\ ops < MaxOps
  /\ ops' = ops + 1
  /\ \E short_code \in LookupCodes :
       /\ req' = [req EXCEPT ![p] = [NoReq EXCEPT !.op = "stats", !.short_code = short_code]]
       /\ IF ByCode(short_code) = {}
            THEN Return(p, Res("NotFound"))
          ELSE \E url \in ByCode(short_code) :
                 Return(p, [Res("Stats") EXCEPT !.short_code = url.short_code,
                              !.total_clicks = url.click_count,
                              !.recent_clicks = Newest(ClicksOf(url.id), RECENT_LIMIT)])
  /\ UNCHANGED <<urls, clicks, nextUrlId, nextClickId, now, loaded, gen, codec>>

(* ------------------------ GET /api/urls : list ------------------------- *)
\* list_urls caps per_page at 100.
MAX_PER_PAGE == 100

Min(a, b) == IF a <= b THEN a ELSE b

\* The rows of page 1 of URL.query.order_by(URL.created_at.desc()).paginate(
\* per_page=n): n rows (or all of them) none of which is older than a row left
\* out; rows of the same created_at come in any order.
FirstPage(n) ==
  {S \in SUBSET urls :
     /\ Cardinality(S) = Min(n, Cardinality(urls))
     /\ \A u \in S, v \in urls \ S : u.created_at >= v.created_at}

\* get_all_urls, called by list_urls with the default page and per_page: the
\* page query and the count query, read in one step (the handler writes nothing).
get_all_urls(p) ==
  /\ pc[p] = "idle" /\ ops < MaxOps
  /\ ops' = ops + 1
  /\ req' = [req EXCEPT ![p] = [NoReq EXCEPT !.op = "list"]]
  /\ \E items \in FirstPage(Min(PER_PAGE, MAX_PER_PAGE)) :
       Return(p, [Res("List") EXCEPT !.urls = {u.short_code : u \in items},
                                    !.total = Cardinality(urls)])
  /\ UNCHANGED <<urls, clicks, nextUrlId, nextClickId, now, loaded, gen, codec>>

(* ----------------- DELETE /api/urls/<short_code> : delete -------------- *)
\* delete_url up to db.session.delete(url): the lookup, and the load of
\* url.clicks that the delete cascade makes when the object is marked.  The
\* two reads are one step: what the second sees that the first did not is
\* seen the same way when it happens before both.
delete_url(p) ==
  /\ pc[p] = "idle" /\ ops < MaxOps
  /\ ops' = ops + 1
  /\ \E short_code \in LookupCodes :
       /\ req' = [req EXCEPT ![p] = [NoReq EXCEPT !.op = "delete", !.short_code = short_code]]
       /\ IF ByCode(short_code) = {}
            THEN /\ Return(p, Res("NotFound")) /\ UNCHANGED loaded
          ELSE \E url \in ByCode(short_code) :
                 /\ loaded' = [loaded EXCEPT ![p] = [NoLoaded EXCEPT !.id = url.id,
                                   !.children = {c.id : c \in ClicksOf(url.id)}]]
                 /\ pc' = [pc EXCEPT ![p] = "delete"]
                 /\ UNCHANGED result
  /\ UNCHANGED <<urls, clicks, nextUrlId, nextClickId, now, gen, codec>>

\* cascade='all, delete-orphan': the Click rows deleted with the URL are the
\* children loaded when the URL was marked for deletion.
CascadeDeleted(children) == {c \in clicks : c.id \in children}

ForeignKeyViolation_off(id, children) == FALSE

\* ForeignKey('urls.id'): the DELETE of a urls row is rejected while a Click
\* row that is not deleted with it refers to it.
ForeignKeyViolation(id, children) ==
  /\ ById(id) # {}
  /\ ClicksOf(id) \ CascadeDeleted(children) # {}

\* delete_url's commit: DELETE of the loaded Click rows and of the URL row in
\* one transaction.  A DELETE that matches no row (the row was deleted by
\* another session) does not fail the commit.
delete_url_commit(p) ==
  /\ pc[p] = "delete"
  /\ \/ /\ ~ForeignKeyViolation(loaded[p].id, loaded[p].children)
        /\ urls' = urls \ ById(loaded[p].id)
        /\ clicks' = clicks \ CascadeDeleted(loaded[p].children)
        /\ Return(p, Res("Deleted"))
     \/ /\ ForeignKeyViolation(loaded[p].id, loaded[p].children)
        /\ Return(p, Res("DatabaseError:IntegrityError"))
        /\ UNCHANGED <<urls, clicks>>
     \/ /\ Return(p, Res("DatabaseError:OperationalError"))
        /\ UNCHANGED <<urls, clicks>>
  /\ UNCHANGED <<nextUrlId, nextClickId, now, ops, req, loaded, gen, codec>>

\* The response has been sent; the thread takes the next request.
Finish(p) ==
  /\ pc[p] = "done"
  /\ pc' = [pc EXCEPT ![p] = "idle"]
  /\ req' = [req EXCEPT ![p] = NoReq]
  /\ loaded' = [loaded EXCEPT ![p] = NoLoaded]
  /\ gen' = [gen EXCEPT ![p] = NoGen]
  /\ result' = [result EXCEPT ![p] = NoResult]
  /\ UNCHANGED <<urls, clicks, nextUrlId, nextClickId, now, ops, codec>>

\* Time passes.
Tick ==
  /\ now < MaxTime
  /\ now' = now + 1
  /\ UNCHANGED <<urls, clicks, nextUrlId, nextClickId, ops, pc, req, loaded, gen, result, codec>>

Next ==
  \/ \E p \in Procs : shorten_url(p)
  \/ \E p \in Procs : create_short_url_dedup(p)
  \/ \E p \in Procs : create_short_url_custom(p)
  \/ \E p \in Procs : generate_random(p)
  \/ \E p \in Procs : create_short_url_insert(p)
  \/ \E p \in Procs : to_dict(p)
  \/ \E p \in Procs : get_original_url(p)
  \/ \E p \in Procs : track_click(p)
  \/ \E p \in Procs : redirect_to_url(p)
  \/ \E p \in Procs : get_url_stats(p)
  \/ \E p \in Procs : get_all_urls(p)
  \/ \E p \in Procs : delete_url(p)
  \/ \E p \in Procs : delete_url_commit(p)
  \/ \E p \in Procs : Finish(p)
  \/ Tick

Spec == Init /\ [][Next]_vars

(* --------------------- base62 conversions (short_code.py) -------------- *)
\* CHARSET = string.ascii_letters + string.digits, one character per element.
CHARSET ==
  <<"a", "b", "c", "d", "e", "f", "g", "h", "i", "j", "k", "l", "m",
    "n", "o", "p", "q", "r", "s", "t", "u", "v", "w", "x", "y", "z",
    "A", "B", "C", "D", "E", "F", "G", "H", "I", "J", "K", "L", "M",
    "N", "O", "P", "Q", "R", "S", "T", "U", "V", "W", "X", "Y", "Z",
    "0", "1", "2", "3", "4", "5", "6", "7", "8", "9">>

\* base = len(CHARSET)
base == Len(CHARSET)

\* The while loop of encode_base62: the list of CHARSET[rem], one per divmod,
\* in the order the loop appends them (least significant first).
RECURSIVE base62(_)
base62(num) ==
  IF num = 0 THEN << >>
  ELSE <<CHARSET[(num % base) + 1]>> \o base62(num \div base)

\* reversed(...)
RECURSIVE reversed(_)
reversed(seq) ==
  IF seq = << >> THEN << >> ELSE Append(reversed(Tail(seq)), Head(seq))

encode_base62_unreversed(num) ==
  IF num = 0 THEN <<CHARSET[1]>> ELSE base62(num)

\* encode_base62
encode_base62(num) ==
  IF num = 0 THEN <<CHARSET[1]>> ELSE reversed(base62(num))

\* CHARSET.index(char), 0-based
index(char) == (CHOOSE i \in 1..Len(CHARSET) : CHARSET[i] = char) - 1

\* decode_base62: num = num * base + CHARSET.index(char) over the characters.
RECURSIVE decode_base62(_)
decode_base62(code) ==
  IF code = << >> THEN 0
  ELSE decode_base62(SubSeq(code, 1, Len(code) - 1)) * base + index(code[Len(code)])

\* str.zfill(width): '0' characters on the left up to width, after a leading
\* sign character if there is one.
zfill(str, width) ==
  LET fill == [i \in 1..(width - Len(str)) |-> "0"] IN
  IF Len(str) >= width THEN str
  ELSE IF str # << >> /\ str[1] \in {"+", "-"} THEN <<str[1]>> \o fill \o Tail(str)
  ELSE fill \o str

\* generate_from_id
generate_from_id(id_num, min_length) ==
  LET code == encode_base62(id_num) IN
  IF Len(code) < min_length THEN zfill(code, min_length) ELSE code

\* The variables of the URL service.
service == <<urls, clicks, nextUrlId, nextClickId, now, ops, pc, req, loaded, gen, result>>

\* The conversions are applied to every number of 0..MaxNum, generate_from_id
\* with every min_length of 1..MaxMinLength.
InitCodec ==
  /\ urls = {} /\ clicks = {} /\ nextUrlId = 1 /\ nextClickId = 1 /\ now = 0 /\ ops = 0
  /\ pc = [p \in Procs |-> "idle"]
  /\ req = [p \in Procs |-> NoReq]
  /\ loaded = [p \in Procs |-> NoLoaded]
  /\ gen = [p \in Procs |-> NoGen]
  /\ result = [p \in Procs |-> NoResult]
  /\ \E num \in 0..MaxNum, min_length \in 1..MaxMinLength :
       codec = [NoCodec EXCEPT !.step = "encode", !.num = num, !.min_length = min_length]

\* code = encode_base62(num)
Encode ==
  /\ codec.step = "encode"
  /\ codec' = [codec EXCEPT !.step = "decode", !.code = encode_base62(codec.num)]
  /\ UNCHANGED service

\* decode_base62(code)
Decode ==
  /\ codec.step = "decode"
  /\ codec' = [codec EXCEPT !.step = "done", !.decoded = decode_base62(codec.code)]
  /\ UNCHANGED service

\* code = generate_from_id(num, min_length)
GenerateFromId ==
  /\ codec.step = "encode"
  /\ codec' = [codec EXCEPT !.step = "from_id",
                            !.code = generate_from_id(codec.num, codec.min_length)]
  /\ UNCHANGED service

NextCodec == Encode \/ Decode \/ GenerateFromId

SpecCodec == InitCodec /\ [][NextCodec]_vars

(* ------------------ code generation against a filled store ------------- *)
\* The stores that code generation starts from hold codes of these lengths:
\* any of the lengths 1..MaxStored, or every length the column can hold.
MaxStored == 2
StoredLengths == (SUBSET (1..MaxStored)) \cup {1..SHORT_CODE_COLUMN_LENGTH}

\* The code of k symbols of Alphabet that random.choices can draw.
RECURSIVE CodeOfLength(_)
CodeOfLength(k) ==
  IF k = 0 THEN << >> ELSE Append(CodeOfLength(k - 1), CHOOSE ch \in Alphabet : TRUE)

UrlC == [name |-> "C", len |-> 21, wellformed |-> TRUE]

\* A stored row whose short_code has length k: generated (custom = FALSE) when
\* shorter than a custom code may be, else stored by a request with that
\* custom code.
StoredRow(k) ==
  [id |-> k, original_url |-> UrlC, short_code |-> CodeOfLength(k),
   custom |-> (k >= CUSTOM_ALIAS_MIN_LENGTH), created_at |-> 0,
   expires_at |-> None, click_count |-> 0]

InitGen ==
  /\ \E lengths \in StoredLengths : urls = {StoredRow(k) : k \in lengths}
  /\ clicks = {}
  /\ nextUrlId = SHORT_CODE_COLUMN_LENGTH + 1
  /\ nextClickId = 1
  /\ now = 0
  /\ ops = 0
  /\ pc = [p \in Procs |-> "idle"]
  /\ req = [p \in Procs |-> NoReq]
  /\ loaded = [p \in Procs |-> NoLoaded]
  /\ gen = [p \in Procs |-> NoGen]
  /\ result = [p \in Procs |-> NoResult]
  /\ codec = NoCodec

\* The create requests alone.
NextGen ==
  \/ \E p \in Procs : shorten_url(p)
  \/ \E p \in Procs : create_short_url_dedup(p)
  \/ \E p \in Procs : create_short_url_custom(p)
  \/ \E p \in Procs : generate_random(p)
  \/ \E p \in Procs : create_short_url_insert(p)
  \/ \E p \in Procs : to_dict(p)
  \/ \E p \in Procs : Finish(p)

\* A thread inside generate_random keeps running.
SpecGen ==
  InitGen /\ [][NextGen]_vars /\ \A p \in Procs : WF_vars(generate_random(p))

(* ============================== properties ============================= *)
\* A row is expired when its expires_at is set and in the past.
InThePast(u) == u.expires_at # None /\ u.expires_at < now

\* Thread p takes the step that leaves position `at`.
Leaves(p, at) == pc[p] = at /\ pc'[p] # at

\* Thread p begins a request of kind op in this step.
Begins(p, op) == pc[p] = "idle" /\ pc'[p] # "idle" /\ req'[p].op = op

UniqueShortCodes == \A u, v \in urls : u.short_code = v.short_code => u = v

\* C1: in every reachable state no two URL rows have the same short_code, under
\* every interleaving of creates, click tracking and deletes; and no step
\* replaces the row that holds a code by another row (a colliding insert is
\* rejected, the existing row stays as it was).
C1_UniqueNoOverwrite ==
  [][ /\ UniqueShortCodes'
      /\ \A u \in urls : \A v \in urls' :
            v.short_code = u.short_code =>
              /\ v.id = u.id /\ v.original_url = u.original_url
              /\ v.custom = u.custom /\ v.expires_at = u.expires_at
              /\ v.created_at = u.created_at ]_vars

\* C1 witness: an insert collided with a stored code and was rejected.
C1_Witness ==
  \E p \in Procs :
    /\ pc[p] = "done" /\ req[p].op = "create"
    /\ result[p].kind = "DatabaseError:IntegrityError"
    /\ \E u \in ByCode(gen[p].short_code) : u.original_url # req[p].original_url

\* C2: a create without a custom code that runs its reuse lookup while the
\* store holds a non-expired row with the requested original_url creates no
\* row and returns the short_code of a non-expired row with that original_url,
\* with already_exists = TRUE.
C2_ReuseWhenNonExpiredExists ==
  [][ \A p \in Procs :
        ( /\ Leaves(p, "dedup")
          /\ \E u \in ByOriginal(req[p].original_url) : u.expires_at = None \/ u.expires_at > now )
        => /\ pc'[p] = "done"
           /\ result'[p].already_exists
           /\ \E u \in urls : /\ u.short_code = result'[p].short_code
                               /\ u.original_url = req[p].original_url
                               /\ ~InThePast(u)
           /\ urls' = urls ]_vars

\* C3: a create whose (well-formed) custom_code is the short_code of a stored
\* row when the service checks it fails with CodeInUse, expired row or not, and
\* leaves the store unchanged.
C3_CustomCodeInUse ==
  [][ \A p \in Procs :
        (Leaves(p, "check_custom") /\ ByCode(req[p].custom_code) # {})
        => /\ pc'[p] = "done"
           /\ result'[p].kind = "CodeInUse"
           /\ urls' = urls /\ clicks' = clicks ]_vars

\* C3 witness: CodeInUse was returned for a code held by an expired row.
C3_Witness ==
  \E p \in Procs :
    /\ pc[p] = "done" /\ req[p].op = "create" /\ result[p].kind = "CodeInUse"
    /\ \E u \in ByCode(req[p].custom_code) : InThePast(u)

\* C4: whenever no track_click is in flight, every URL row's click_count equals
\* the number of its Click rows (the number of track_click calls that
\* completed for it).
C4_ClickCountEqualsClicks ==
  (\A p \in Procs : pc[p] # "track")
    => \A u \in urls : u.click_count = Cardinality(ClicksOf(u.id))

\* C5: no step lowers the click_count of a URL row.
C5_ClickCountMonotone ==
  [][ \A u \in urls : \A v \in urls' : v.id = u.id => v.click_count >= u.click_count ]_vars

\* C6: every Click row's url_id is the id of a stored URL row.
C6_NoOrphanClick == \A c \in clicks : ById(c.url_id) # {}

\* C6 witness: a delete of a URL committed while a redirect for the same URL
\* was between its lookup and its response, after track_click ran.
C6_Witness ==
  \E p, q \in Procs :
    /\ req[p].op = "redirect" /\ pc[p] = "respond"
    /\ req[q].op = "delete" /\ pc[q] = "done" /\ result[q].kind = "Deleted"
    /\ loaded[p].id = loaded[q].id
    /\ ById(loaded[p].id) = {}

\* C7: when delete_url(code) reports success, the store then holds no URL row
\* with that code and no Click row of the deleted URL, so that a lookup of the
\* code finds nothing.
C7_DeletedCodeIsGone ==
  [][ \A p \in Procs :
        (Leaves(p, "delete") /\ result'[p].kind = "Deleted")
        => /\ \A u \in urls' : u.short_code # req[p].short_code
           /\ \A c \in clicks' : c.url_id # loaded[p].id ]_vars

\* C8: get_original_url(code) fails with Expired exactly when a row with the
\* code exists whose expires_at is set and in the past, fails with NotFound
\* exactly when no row has the code, and otherwise succeeds with the row; the
\* lookup changes no row, and a row leaves the store only by a delete commit.
C8_ExpiredVsNotFound ==
  [][ /\ \A p \in Procs :
            Begins(p, "redirect") =>
              LET rows == ByCode(req'[p].short_code) IN
              /\ (pc'[p] = "done" /\ result'[p].kind = "NotFound") <=> (rows = {})
              /\ (pc'[p] = "done" /\ result'[p].kind = "Expired") <=> (\E u \in rows : InThePast(u))
              /\ (pc'[p] = "track") <=> (\E u \in rows : ~InThePast(u))
              /\ pc'[p] = "track" => \E u \in rows : /\ loaded'[p].id = u.id
                                                      /\ loaded'[p].original_url = u.original_url
              /\ urls' = urls
      /\ (\E u \in urls : \A v \in urls' : v.id # u.id)
            => \E p \in Procs : Leaves(p, "delete") ]_vars

\* C8 witness: a lookup returned Expired and the expired row is still stored.
C8_Witness ==
  \E p \in Procs :
    /\ pc[p] = "done" /\ req[p].op = "redirect" /\ result[p].kind = "Expired"
    /\ \E u \in ByCode(req[p].short_code) : InThePast(u)

C10_CustomRaceReturnsCodeInUse ==
  \A p \in Procs :
    (pc[p] = "done" /\ req[p].op = "create" /\ req[p].custom_code # NoCode
       /\ ByCode(req[p].custom_code) # {})
    => result[p].kind \in {"CodeInUse", "Created", "InvalidUrl", "InvalidCustomCode",
                           "DatabaseError:OperationalError",
                           "DatabaseError:ObjectDeletedError"}

\* C11: a short code that was assigned to a URL row is never later assigned to
\* a row with another id: the row that a redirect or a delete found under a
\* code has the id of every row stored under that code from then on.
C11_CodeNeverReassigned ==
  \A p \in Procs :
    (req[p].op \in {"redirect", "delete"} /\ loaded[p].id # None)
      => \A u \in ByCode(req[p].short_code) : u.id = loaded[p].id

\* C12: for every original_url at most one stored URL row with that
\* original_url has custom = FALSE.
C12_OneNonCustomPerOriginal ==
  \A u, v \in urls :
    (u.original_url = v.original_url /\ ~u.custom /\ ~v.custom) => u = v

\* Thread p takes this step.
Acts(p) == pc'[p] # pc[p] \/ gen'[p] # gen[p]

\* C13: a create that succeeds returns the short_code of a stored row with the
\* requested original_url; a row keeps its short_code and original_url while
\* it is stored; get_original_url of the code of a stored row that is not
\* expired succeeds with that row; and the first recorded click of a row
\* raises its click_count from 0 to 1.
C13_CreatedCodeResolves ==
  [][ /\ \A p \in Procs :
            /\ ( /\ req[p].op = "create" /\ Acts(p) /\ pc'[p] = "done"
                 /\ result'[p].kind \in {"Created", "Existing"} )
                 => \E u \in urls' : /\ u.short_code = result'[p].short_code
                                     /\ u.original_url = req[p].original_url
            /\ Begins(p, "redirect") =>
                 \A u \in ByCode(req'[p].short_code) :
                    ~InThePast(u) => /\ pc'[p] = "track"
                                     /\ loaded'[p].id = u.id
                                     /\ loaded'[p].original_url = u.original_url
            /\ ( /\ Leaves(p, "track") /\ clicks' # clicks
                 /\ ClicksOf(loaded[p].id) = {} )
                 => /\ \E u \in urls : u.id = loaded[p].id /\ u.click_count = 0
                    /\ \E v \in urls' : v.id = loaded[p].id /\ v.click_count = 1
      /\ \A u \in urls : \A v \in urls' :
            v.id = u.id => /\ v.short_code = u.short_code
                           /\ v.original_url = u.original_url ]_vars

\* C13 witness: the redirect of a created code answered with the row's
\* original_url and its first click took click_count from 0 to 1.
C13_Witness ==
  \E p \in Procs :
    /\ pc[p] = "done" /\ req[p].op = "redirect" /\ result[p].kind = "Redirect"
    /\ loaded[p].click_count = 0
    /\ \E u \in ById(loaded[p].id) : /\ u.short_code = req[p].short_code
                                     /\ u.original_url = result[p].original_url
                                     /\ u.click_count = 1
                                     /\ Cardinality(ClicksOf(u.id)) = 1

\* C14: for every number n of 0..MaxNum, decode_base62(encode_base62(n)) = n,
\* and encode_base62(0) is the one-character string of CHARSET's first symbol.
C14_Base62RoundTrip ==
  /\ codec.step = "done" => codec.decoded = codec.num
  /\ (codec.step \in {"decode", "done"} /\ codec.num = 0) => codec.code = <<"a">>

\* C14 witness: a number of three base62 digits was encoded and decoded back.
C14_Witness ==
  /\ codec.step = "done" /\ codec.num >= base * base
  /\ Len(codec.code) = 3 /\ codec.code[1] # codec.code[3]
  /\ codec.decoded = codec.num

\* C15: a create without a custom code never returns the failure of an insert
\* that the unique index rejected (the service would regenerate and retry).
C15_RandomCollisionRetried ==
  \A p \in Procs :
    (pc[p] = "done" /\ req[p].op = "create" /\ req[p].custom_code = NoCode)
      => result[p].kind # "DatabaseError:IntegrityError"

\* C16: generate_random terminates whatever the store holds: each attempt that
\* does not return found its draw in the store and either counts one more
\* attempt at the same length (fewer than max_attempts at a length) or, being
\* the last of max_attempts, moves to length + 1; the code it returns is made
\* of CHARSET symbols, at least as long as requested and absent from the store
\* at the check; and a thread in generate_random eventually leaves it.
C16_GenerateRandomTerminates ==
  /\ [][ \A p \in Procs :
           /\ (pc[p] = "generate" /\ pc'[p] = "generate" /\ gen'[p] # gen[p]) =>
                /\ \E code \in Draws(gen[p].length) : ByCode(code) # {}
                /\ \/ /\ gen'[p].length = gen[p].length
                      /\ gen'[p].attempt = gen[p].attempt + 1
                      /\ gen'[p].attempt < MaxAttempts
                   \/ /\ gen[p].attempt = MaxAttempts - 1
                      /\ gen'[p].length = gen[p].length + 1
                      /\ gen'[p].attempt = 0
           /\ Leaves(p, "generate") =>
                LET code == gen'[p].short_code IN
                /\ pc'[p] = "insert"
                /\ Len(code) = gen[p].length /\ Len(code) >= SHORT_CODE_LENGTH
                /\ \A i \in 1..Len(code) : \E j \in 1..Len(CHARSET) : CHARSET[j] = code[i]
                /\ ByCode(code) = {} /\ urls' = urls ]_vars
  /\ \A p \in Procs : (pc[p] = "generate") ~> (pc[p] # "generate")

\* C16 witness: generate_random returned a code longer than requested, after
\* max_attempts collisions at each shorter length.
C16_Witness ==
  \E p \in Procs :
    /\ pc[p] = "insert" /\ req[p].custom_code = NoCode
    /\ Len(gen[p].short_code) > SHORT_CODE_LENGTH + 1
    /\ \A k \in SHORT_CODE_LENGTH..(Len(gen[p].short_code) - 1) : ByCode(CodeOfLength(k)) # {}

\* C17: generate_random never returns a code longer than the short_code column
\* holds (20 characters).
C17_GeneratedLengthCapped ==
  \A p \in Procs :
    (pc[p] \in {"insert", "done"} /\ req[p].op = "create" /\ req[p].custom_code = NoCode)
      => Len(gen[p].short_code) <= SHORT_CODE_COLUMN_LENGTH

\* Thread p takes a step of one of the operations that only read rows or add
\* one: create_short_url, get_original_url, get_url_stats, get_all_urls.
ReadsOrCreates(p) ==
  \/ req[p].op = "create" /\ Acts(p)
  \/ Begins(p, "create") \/ Begins(p, "redirect") \/ Begins(p, "stats") \/ Begins(p, "list")

\* C18: a stored URL row keeps its id, original_url, short_code, custom,
\* created_at and expires_at in every step; a step that changes a stored row
\* is the commit of a track_click for that row, and it changes click_count
\* only; the steps of create_short_url, get_original_url, get_url_stats and
\* get_all_urls leave every stored row as it is.
C18_RowsImmutableButClickCount ==
  [][ /\ \A u \in urls : \A v \in urls' :
            v.id = u.id =>
              /\ [v EXCEPT !.click_count = u.click_count] = u
              /\ v # u => \E p \in Procs : Leaves(p, "track") /\ loaded[p].id = u.id
      /\ \A p \in Procs : ReadsOrCreates(p) => \A u \in urls : u \in urls' ]_vars

\* C18 witness: a row with a set expires_at had its click_count raised by
\* track_click and was then read by get_all_urls.
C18_Witness ==
  \E p \in Procs :
    /\ pc[p] = "done" /\ req[p].op = "list" /\ result[p].total >= 1
    /\ \E u \in urls : /\ u.click_count = 1 /\ u.expires_at # None
                       /\ u.short_code \in result[p].urls

\* The ways create_short_url fails.
CreateFailures ==
  {"InvalidUrl", "InvalidCustomCode", "CodeInUse", "DatabaseError:IntegrityError",
   "DatabaseError:DataError", "DatabaseError:OperationalError",
   "DatabaseError:ObjectDeletedError"}

\* C19: the step in which a create_short_url call returns a failure leaves
\* urls and clicks as they were, and so does every step of a create other than
\* the insert; when a create returns a failure the store holds no row that
\* this call inserted; a delete_url of a code that no row has returns NotFound
\* and leaves urls and clicks as they were.
C19_FailuresChangeNothing ==
  [][ \A p \in Procs :
        /\ ( /\ (Begins(p, "create") \/ (req[p].op = "create" /\ Acts(p)))
             /\ pc'[p] = "done" /\ result'[p].kind \in CreateFailures )
             => /\ urls' = urls /\ clicks' = clicks
                /\ \A u \in urls' : u.id # loaded'[p].id
        /\ ((Begins(p, "create") \/ (req[p].op = "create" /\ Acts(p))) /\ pc[p] # "insert")
             => urls' = urls /\ clicks' = clicks
        /\ (Begins(p, "delete") /\ ByCode(req'[p].short_code) = {})
             => /\ pc'[p] = "done" /\ result'[p].kind = "NotFound"
                /\ urls' = urls /\ clicks' = clicks ]_vars

\* C19 witness: an insert failed in the database and was rolled back while the
\* store held another row, which is still there with its Click.
C19_Witness ==
  \E p \in Procs :
    /\ pc[p] = "done" /\ req[p].op = "create"
    /\ result[p].kind = "DatabaseError:OperationalError"
    /\ loaded[p].id = None
    /\ ByCode(gen[p].short_code) = {}
    /\ \E u \in urls : ClicksOf(u.id) # {}

\* C20: at every instant, a stored row is taken as non-expired by
\* create_short_url's reuse test exactly when get_original_url of its code
\* succeeds (the row is not expired for redirect), also when expires_at = now.
C20_ExpiryTestsAgree ==
  \A u \in urls : NotExpiredForReuse(u) <=> ~ExpiredForRedirect(u)

\* C21: generate_from_id is injective for a given min_length: the code it
\* returned for an id is returned for no other id of 0..MaxNum.
C21_GenerateFromIdInjective ==
  codec.step = "from_id" =>
    \A other \in 0..MaxNum :
      other # codec.num => generate_from_id(other, codec.min_length) # codec.code
====
